---- MODULE Spec2Model ----
(***************************************************************************)
(* State-machine model of the npuzzle front end:                           *)
(*   - Puzzle (gen/puzzle.py): generate_snail, shuffle, ensure_solvability,*)
(*     driven in that order by Controller.generate_puzzle;                 *)
(*   - Solution.from_json (core/solution.py);                              *)
(*   - InteractiveViewer.run (core/interactive.py);                        *)
(*   - Controller.run and Controller.solve_puzzle (cli/controller.py) with *)
(*     SignalHandler.handle_interrupt (core/signals.py);                   *)
(*   - parse_input_file (io/parser.py).                                    *)
(* Grids are functions over the flat indices 0..size*size-1, as in the     *)
(* Python lists they model.                                                *)
(***************************************************************************)
EXTENDS Integers, Sequences, FiniteSets, TLC

VARIABLES
    size,           \* Puzzle.size
    grid,           \* Puzzle.grid, a function over 0..size*size-1
    solvable,       \* Puzzle.solvable (is_solvable of generate_puzzle)
    iterations,     \* args.iteration, the argument of shuffle
    pc,             \* which call of generate_puzzle is running
    current_value,  \* generate_snail's locals
    x,
    y,
    direction_x,
    direction_y,
    written,        \* history: one record per cell write of generate_snail
    rounds,         \* history: rounds of shuffle's for loop completed
    start,          \* history: the grid shuffle was called on
    prev,           \* history: the grid before the last operation
    idx,            \* shuffle's idx in the last round (-1 before any)
    swap_idx,       \* shuffle's swap_idx in the last round (-1 before any)
    perturbed,      \* history: the caller replaced the goal grid by another
                    \* permutation before calling shuffle
    original,       \* history: the grid the first ensure_solvability was
                    \* called on
    raw,            \* the text handed to Solution.from_json
    outcome,        \* what from_json returned or raised ("kind" is "pending"
                    \* before the call)
    solution_states, \* InteractiveViewer.solution.states, the tiles of each
    current_step,   \* InteractiveViewer.current_step
    total_steps,    \* InteractiveViewer.total_steps
    view_mode,      \* InteractiveViewer.view_mode
    running,        \* the while loop of InteractiveViewer.run has not broken
    key,            \* history: the last key get_key returned ("" before any)
    old_step,       \* history: current_step when that key was read
    old_view,       \* history: view_mode when that key was read
    moved_tile,     \* what _get_moved_tile returned to the last render_state:
                    \* << >> for None, << t >> for the tile t
    advances,       \* history: how many RIGHT keys were read, and nothing
                    \* else, since the cursor was last put on (0, grid);
                    \* -1 once another key was read
    interactive,    \* args.interactive
    run_result,     \* how Controller.run went on after solve_puzzle ("ended"
                    \* is "pending" before)
    child,          \* the solver process: "none" before Popen, then
                    \* "running", "exited", "terminated" or "killed"
    returncode,     \* process.returncode once the child has exited
    handler_subprocess, \* SignalHandler.subprocess is the Popen object
    interrupted,    \* SignalHandler.interrupted
    exit_status,    \* the status the program exited with, -1 while it runs
    file_lines,     \* file_content.splitlines() of parse_input_file
    file_pos,       \* how many of these lines the for loop has consumed
    file_size,      \* parse_input_file's size: << >> for None, << n >>
    file_tiles,     \* parse_input_file's tiles
    file_result     \* what parse_input_file returned or raised ("kind" is
                    \* "pending" before)

genVars == << size, grid, solvable, iterations, pc, current_value, x, y,
              direction_x, direction_y, written, rounds, start, prev, idx,
              swap_idx, perturbed, original >>

parseVars == << raw, outcome >>

navVars == << solution_states, current_step, total_steps, view_mode, running, key,
              old_step, old_view, moved_tile, advances >>

runVars == << interactive, run_result >>

solveVars == << child, returncode, handler_subprocess, interrupted,
                exit_status >>

fileVars == << file_lines, file_pos, file_size, file_tiles, file_result >>

vars == << genVars, parseVars, navVars, runVars, solveVars, fileVars >>

(***************************************************************************)
(* Bounds of the model and constants of the program.                       *)
(***************************************************************************)
MinSize == 3

MaxSize == 4

MaxIter == 3

DEFAULT_TILE_VALUE == -1

Cells(s) == 0 .. (s * s - 1)

EmptyGrid(s) == [i \in Cells(s) |-> DEFAULT_TILE_VALUE]

(***************************************************************************)
(* Puzzle.generate_snail: one iteration of its while loop.                 *)
(***************************************************************************)
IsOutOfBounds(next_x, next_y, s) ==
    next_x < 0 \/ next_x >= s \/ next_y < 0 \/ next_y >= s

IsCellFilled(g, next_x, next_y, s) ==
    IF IsOutOfBounds(next_x, next_y, s)
    THEN FALSE
    ELSE g[next_x + next_y * s] # DEFAULT_TILE_VALUE

\* mutant: the turn ignores cells that are already filled
ShouldTurn_BoundsOnly(g, next_x, next_y, s) ==
    IsOutOfBounds(next_x, next_y, s)

ShouldTurn(g, next_x, next_y, s) ==
    IsOutOfBounds(next_x, next_y, s) \/ IsCellFilled(g, next_x, next_y, s)

\* mutant: the rotation loses its sign
TurnX_NoSign(dx, dy) == dy

\* direction_x, direction_y = -direction_y, direction_x
TurnX(dx, dy) == -dy

TurnY(dx, dy) == dx

\* current_value += 1; if current_value == max_tile_value: current_value = 0
NextValue(v, s) == IF v + 1 = s * s THEN 0 ELSE v + 1

\* Python list indexing: a negative index counts from the end, anything
\* outside -len..len-1 raises IndexError (modelled as the index -1 - len).
ListIndex(i, len) ==
    IF i >= 0 /\ i < len THEN i
    ELSE IF i < 0 /\ i >= -len THEN i + len
    ELSE -1 - len

SnailStep ==
    /\ pc = "generate_snail"
    /\ LET index == x + y * size
           at == ListIndex(index, size * size)
       IN IF at \notin Cells(size)
          THEN /\ pc' = "IndexError"
               /\ UNCHANGED << grid, current_value, x, y, direction_x,
                               direction_y, written, start, prev >>
          ELSE LET g == [grid EXCEPT ![at] = current_value]
                   rec == [x |-> x, y |-> y, index |-> index,
                           value |-> current_value,
                           was_empty |-> grid[at] = DEFAULT_TILE_VALUE,
                           dx |-> direction_x, dy |-> direction_y]
               IN /\ grid' = g
                  /\ written' = Append(written, rec)
                  /\ prev' = grid
                  /\ IF current_value = 0
                     THEN /\ pc' = IF iterations > 0 THEN "shuffle"
                                   ELSE "ensure_solvability"
                          /\ start' = g
                          /\ UNCHANGED << current_value, x, y, direction_x,
                                          direction_y >>
                     ELSE LET turn == ShouldTurn(g, x + direction_x,
                                                 y + direction_y, size)
                              ndx == IF turn THEN TurnX(direction_x, direction_y)
                                     ELSE direction_x
                              ndy == IF turn THEN TurnY(direction_x, direction_y)
                                     ELSE direction_y
                          IN /\ current_value' = NextValue(current_value, size)
                             /\ direction_x' = ndx
                             /\ direction_y' = ndy
                             /\ x' = x + ndx
                             /\ y' = y + ndy
                             /\ UNCHANGED << pc, start >>
    /\ UNCHANGED << size, solvable, iterations, rounds, idx, swap_idx,
                    perturbed, original >>
    /\ UNCHANGED << parseVars, navVars, runVars, solveVars, fileVars >>

(***************************************************************************)
(* Puzzle.shuffle: one round of its for loop.                              *)
(***************************************************************************)
\* list.index(0): the first index holding 0
IndexOfZero(g, s) == CHOOSE i \in Cells(s) :
                        /\ g[i] = 0
                        /\ \A j \in Cells(s) : g[j] = 0 => i <= j

\* mutant: the horizontal neighbours are taken without the row test
PossibleSwaps_NoRowTest(i, s) ==
    (IF i > 0 THEN {i - 1} ELSE {})
    \cup (IF i < s * s - 1 THEN {i + 1} ELSE {})
    \cup (IF i \div s > 0 THEN {i - s} ELSE {})
    \cup (IF i \div s < s - 1 THEN {i + s} ELSE {})

PossibleSwaps(i, s) ==
    (IF i % s > 0 THEN {i - 1} ELSE {})
    \cup (IF i % s < s - 1 THEN {i + 1} ELSE {})
    \cup (IF i \div s > 0 THEN {i - s} ELSE {})
    \cup (IF i \div s < s - 1 THEN {i + s} ELSE {})

\* self.grid[idx] = self.grid[swap_idx]; self.grid[swap_idx] = 0
MoveBlank(g, i, j) == [g EXCEPT ![i] = g[j], ![j] = 0]

ShuffleRound ==
    /\ pc = "shuffle"
    /\ rounds < iterations
    /\ LET i == IndexOfZero(grid, size)
       IN \E j \in PossibleSwaps(i, size) :
            /\ grid' = MoveBlank(grid, i, j)
            /\ idx' = i
            /\ swap_idx' = j
    /\ prev' = grid
    /\ rounds' = rounds + 1
    /\ pc' = IF rounds + 1 < iterations THEN "shuffle" ELSE "ensure_solvability"
    /\ UNCHANGED << size, solvable, iterations, current_value, x, y,
                    direction_x, direction_y, written, start, perturbed,
                    original >>
    /\ UNCHANGED << parseVars, navVars, runVars, solveVars, fileVars >>

(***************************************************************************)
(* Puzzle.ensure_solvability(should_be_solvable)                           *)
(***************************************************************************)
SwapCells(g, i, j) == [g EXCEPT ![i] = g[j], ![j] = g[i]]

\* mutant: the first two cells are exchanged wherever the blank is
EnsureGrid_AlwaysFirstTwo(g, s, should_be_solvable) ==
    IF should_be_solvable THEN g ELSE SwapCells(g, 0, 1)

\* mutant: only cell 0 is tested for the blank
EnsureGrid_TestsCell0Only(g, s, should_be_solvable) ==
    IF should_be_solvable
    THEN g
    ELSE IF g[0] = 0
         THEN SwapCells(g, s * s - 1, s * s - 2)
         ELSE SwapCells(g, 0, 1)

\* mutant: cell 0 is tested for the tile 1, not for the blank
EnsureGrid_TestsCell0ForOne(g, s, should_be_solvable) ==
    IF should_be_solvable
    THEN g
    ELSE IF g[0] = 1 \/ g[1] = 0
         THEN SwapCells(g, s * s - 1, s * s - 2)
         ELSE SwapCells(g, 0, 1)

EnsureGrid(g, s, should_be_solvable) ==
    IF should_be_solvable
    THEN g
    ELSE LET last_index == s * s - 1
             empty_at_start == g[0] = 0 \/ g[1] = 0
         IN IF empty_at_start
            THEN SwapCells(g, last_index, last_index - 1)
            ELSE SwapCells(g, 0, 1)

EnsureSolvability ==
    /\ pc = "ensure_solvability"
    /\ grid' = EnsureGrid(grid, size, solvable)
    /\ prev' = grid
    /\ original' = grid
    /\ pc' = "done"
    /\ UNCHANGED << size, solvable, iterations, current_value, x, y,
                    direction_x, direction_y, written, rounds, start, idx,
                    swap_idx, perturbed >>
    /\ UNCHANGED << parseVars, navVars, runVars, solveVars, fileVars >>

(***************************************************************************)
(* Vocabulary of the properties: permutations, board geometry, legal blank *)
(* moves and the parity class they preserve.  None of it is taken from the *)
(* operations above.                                                       *)
(***************************************************************************)
\* the Python list [a, b, ...] as a function over 0..len-1
AsGrid(seq) == [i \in 0 .. Len(seq) - 1 |-> seq[i + 1]]

Row(i, s) == i \div s

Col(i, s) == i % s

Abs(n) == IF n < 0 THEN -n ELSE n

\* i and j are cells of the board that share a side
Adjacent(i, j, s) ==
    /\ i \in Cells(s)
    /\ j \in Cells(s)
    /\ Abs(Row(i, s) - Row(j, s)) + Abs(Col(i, s) - Col(j, s)) = 1

IsPermutation(g, s) ==
    /\ DOMAIN g = Cells(s)
    /\ \A v \in Cells(s) : Cardinality({i \in Cells(s) : g[i] = v}) = 1

BlankAt(g, s) == CHOOSE i \in Cells(s) : g[i] = 0

\* parity of the number of inversions of the whole sequence (blank included)
PermParity(g, s) ==
    Cardinality({i \in Cells(s) :
        Cardinality({j \in Cells(s) : i < j /\ g[i] > g[j]}) % 2 = 1}) % 2

\* A legal blank move is a transposition (it flips PermParity) that moves the
\* blank by one row or one column (it flips the parity of row + column), so
\* this sum is the same for all grids connected by legal moves.
SolvClass(g, s) ==
    (PermParity(g, s) + Row(BlankAt(g, s), s) + Col(BlankAt(g, s), s)) % 2

\* g2 is g1 with cells i and j exchanged and every other cell untouched
ExchangedAt(g1, g2, i, j, s) ==
    /\ g2[i] = g1[j]
    /\ g2[j] = g1[i]
    /\ \A k \in Cells(s) \ {i, j} : g2[k] = g1[k]

\* the grids one legal blank move away from g
LegalMoves(g, s) ==
    {SwapCells(g, BlankAt(g, s), j) :
        j \in {k \in Cells(s) : Adjacent(BlankAt(g, s), k, s)}}

\* seen, and the grids at most k legal blank moves away from its subset new
RECURSIVE ReachFrom(_, _, _, _)
ReachFrom(seen, new, s, k) ==
    IF k = 0 \/ new = {} THEN seen
    ELSE LET next == (UNION {LegalMoves(g, s) : g \in new}) \ seen
         IN ReachFrom(seen \cup next, next, s, k - 1)

\* the grids at most k legal blank moves away from the grids of S
ReachWithin(S, s, k) == ReachFrom(S, S, s, k)

\* the cells of ring r of the board, clockwise from its top-left corner, as
\* flat indices
Ring(s, r) ==
    LET lo == r
        hi == s - 1 - r
        side == hi - lo
    IN IF side = 0 THEN << lo + lo * s >>
       ELSE [k \in 1 .. side + 1 |-> (lo + k - 1) + lo * s]
            \o [k \in 1 .. side |-> hi + (lo + k) * s]
            \o [k \in 1 .. side |-> (hi - k) + hi * s]
            \o [k \in 1 .. side - 1 |-> lo + (hi - k) * s]

\* the clockwise inward spiral: ring 0, then ring 1, ...
RECURSIVE SpiralFrom(_, _)
SpiralFrom(s, r) ==
    IF 2 * r > s - 1 THEN << >> ELSE Ring(s, r) \o SpiralFrom(s, r + 1)

Spiral(s) == SpiralFrom(s, 0)

InShuffle == pc \in {"shuffle", "ensure_solvability"}

(***************************************************************************)
(* JSON values as json.loads returns them.  Every value is a record of the *)
(* same shape: kind is "null", "true", "false", "num", "str", "list" or    *)
(* "dict"; n is the number; s the characters of a string; items the        *)
(* elements of a list; members the << key, value >> pairs of a dict.       *)
(***************************************************************************)
JV(kind, n, s, items, members) ==
    [kind |-> kind, n |-> n, s |-> s, items |-> items, members |-> members]

JNull == JV("null", 0, << >>, << >>, << >>)

JTrue == JV("true", 0, << >>, << >>, << >>)

JFalse == JV("false", 0, << >>, << >>, << >>)

JNum(n) == JV("num", n, << >>, << >>, << >>)

JStr(s) == JV("str", 0, s, << >>, << >>)

JList(items) == JV("list", 0, << >>, items, << >>)

JDict(members) == JV("dict", 0, << >>, << >>, members)

HasKey(d, name) == \E k \in 1 .. Len(d.members) : d.members[k][1] = name

Member(d, name) ==
    d.members[CHOOSE k \in 1 .. Len(d.members) : d.members[k][1] = name][2]

\* the result of a Python expression: exc is "" and val the value, or exc
\* names the exception it raised
Value(v) == [exc |-> "", val |-> v]

Raised(e) == [exc |-> e, val |-> JNull]

\* v.get(key): None when the key is absent; only a dict has .get
DictGet(v, name) ==
    IF v.kind # "dict" THEN Raised("AttributeError")
    ELSE IF HasKey(v, name) THEN Value(Member(v, name))
    ELSE Value(JNull)

\* bool(v)
Truthy(v) ==
    CASE v.kind = "null" -> FALSE
      [] v.kind = "false" -> FALSE
      [] v.kind = "true" -> TRUE
      [] v.kind = "num" -> v.n # 0
      [] v.kind = "str" -> v.s # << >>
      [] v.kind = "list" -> v.items # << >>
      [] v.kind = "dict" -> v.members # << >>

\* v[key] with a string key
Subscript(v, name) ==
    IF v.kind = "dict"
    THEN IF HasKey(v, name) THEN Value(Member(v, name)) ELSE Raised("KeyError")
    ELSE Raised("TypeError")

\* what `for entry in v` yields: the elements of a list, the keys of a dict,
\* the characters of a string; anything else is not iterable
Iterate(v) ==
    CASE v.kind = "list" -> [exc |-> "", items |-> v.items]
      [] v.kind = "dict" ->
            [exc |-> "",
             items |-> [k \in 1 .. Len(v.members) |->
                           JStr(<< v.members[k][1] >>)]]
      [] v.kind = "str" ->
            [exc |-> "", items |-> [k \in 1 .. Len(v.s) |-> JStr(<< v.s[k] >>)]]
      [] OTHER -> [exc |-> "TypeError", items |-> << >>]

\* the first exception of a sequence of results, "" when there is none
FirstExc(excs) ==
    IF \A k \in 1 .. Len(excs) : excs[k] = "" THEN ""
    ELSE excs[CHOOSE k \in 1 .. Len(excs) :
                 /\ excs[k] # ""
                 /\ \A l \in 1 .. k - 1 : excs[l] = ""]

(***************************************************************************)
(* Solution.from_json                                                      *)
(***************************************************************************)
\* State(tiles=entry["tiles"], g_cost=entry["g_cost"], ...)
EntryState(entry) ==
    LET tiles == Subscript(entry, "tiles")
        g_cost == Subscript(entry, "g_cost")
        h_cost == Subscript(entry, "h_cost")
        f_cost == Subscript(entry, "f_cost")
    IN [exc |-> FirstExc(<< tiles.exc, g_cost.exc, h_cost.exc, f_cost.exc >>),
        val |-> [tiles |-> tiles.val, g_cost |-> g_cost.val,
                 h_cost |-> h_cost.val, f_cost |-> f_cost.val]]

\* mutant: the comprehension stops at the first entry it cannot read and
\* keeps the states built so far
PathStates_KeepsPrefix(items) ==
    LET rs == [k \in 1 .. Len(items) |-> EntryState(items[k])]
        good == {k \in 0 .. Len(items) : \A l \in 1 .. k : rs[l].exc = ""}
        upto == CHOOSE k \in good : \A l \in good : l <= k
    IN [exc |-> "", val |-> [k \in 1 .. upto |-> rs[k].val]]

\* [State(...) for entry in data["path"]], the entries already iterated
PathStates(items) ==
    LET rs == [k \in 1 .. Len(items) |-> EntryState(items[k])]
    IN [exc |-> FirstExc([k \in 1 .. Len(items) |-> rs[k].exc]),
        val |-> [k \in 1 .. Len(items) |-> rs[k].val]]

\* Statistics(states_selected=stats["states_selected"], ...)
ParseStatistics(stats) ==
    LET states_selected == Subscript(stats, "states_selected")
        max_states_in_memory == Subscript(stats, "max_states_in_memory")
        solution_length == Subscript(stats, "solution_length")
    IN [exc |-> FirstExc(<< states_selected.exc, max_states_in_memory.exc,
                            solution_length.exc >>),
        val |-> [states_selected |-> states_selected.val,
                 max_states_in_memory |-> max_states_in_memory.val,
                 solution_length |-> solution_length.val]]

NoStatistics ==
    [states_selected |-> JNull, max_states_in_memory |-> JNull,
     solution_length |-> JNull]

Raise(e) ==
    [kind |-> "raise", exc |-> e, states |-> << >>, statistics |-> NoStatistics]

Returned(states, statistics) ==
    [kind |-> "Solution", exc |-> "", states |-> states,
     statistics |-> statistics]

\* except (KeyError, TypeError, IndexError) as e: raise InvalidSolutionFormat
Handler(e) ==
    IF e \in {"KeyError", "TypeError", "IndexError"}
    THEN Raise("InvalidSolutionFormat")
    ELSE Raise(e)

\* mutant: only an explicit false counts as failure
SolverReportedFailure_IsFalse(success) == success = JFalse

\* not data.get("success")
SolverReportedFailure(success) == ~Truthy(success)

\* the try block of lines 57-77
BuildSolution(data) ==
    LET path == Subscript(data, "path")
    IN IF path.exc # "" THEN Handler(path.exc)
       ELSE LET entries == Iterate(path.val)
            IN IF entries.exc # "" THEN Handler(entries.exc)
               ELSE LET states == PathStates(entries.items)
                    IN IF states.exc # "" THEN Handler(states.exc)
                       ELSE LET stats == Subscript(data, "statistics")
                            IN IF stats.exc # "" THEN Handler(stats.exc)
                               ELSE LET statistics == ParseStatistics(stats.val)
                                    IN IF statistics.exc # ""
                                       THEN Handler(statistics.exc)
                                       ELSE Returned(states.val, statistics.val)

\* r is the text: r.json says whether json.loads accepts it, r.value is what
\* json.loads returns
FromJsonResult(r) ==
    IF ~r.json THEN Raise("InvalidSolutionFormat")
    ELSE LET data == r.value
             success == DictGet(data, "success")
         IN IF success.exc # "" THEN Raise(success.exc)
            ELSE IF SolverReportedFailure(success.val)
                 THEN Raise("SolverFailedError")
                 ELSE BuildSolution(data)

Pending ==
    [kind |-> "pending", exc |-> "", states |-> << >>,
     statistics |-> NoStatistics]

FromJson ==
    /\ outcome.kind = "pending"
    /\ outcome' = FromJsonResult(raw)
    /\ UNCHANGED raw
    /\ UNCHANGED << genVars, navVars, runVars, solveVars, fileVars >>

(***************************************************************************)
(* The solver outputs from_json is called on: texts that are not JSON,     *)
(* JSON values that are not objects, and objects whose "success", "path"   *)
(* and "statistics" members are each absent, as the schema has them, or of *)
(* another shape.  An optional member is << >> (absent) or << value >>.    *)
(***************************************************************************)
MaxPath == 2

NumList(seq) == JList([k \in 1 .. Len(seq) |-> JNum(seq[k])])

Without(d, name) ==
    JDict(SelectSeq(d.members, LAMBDA m : m[1] # name))

Replace(d, name, v) ==
    JDict([k \in 1 .. Len(d.members) |->
              IF d.members[k][1] = name THEN << name, v >> ELSE d.members[k]])

PathEntry(tiles, g, h, f) ==
    JDict(<< << "tiles", NumList(tiles) >>, << "g_cost", JNum(g) >>,
             << "h_cost", JNum(h) >>, << "f_cost", JNum(f) >> >>)

EntryA == PathEntry(<< 1, 2, 3, 4, 5, 6, 7, 0, 8 >>, 0, 1, 1)

EntryB == PathEntry(<< 1, 2, 3, 4, 5, 6, 7, 8, 0 >>, 1, 0, 1)

EntryFields == {"tiles", "g_cost", "h_cost", "f_cost"}

SchemaEntries == {EntryA, EntryB}

OtherEntries ==
    {Without(EntryA, f) : f \in EntryFields}
    \cup {JNum(7), JNull, JList(<< JNum(1) >>), JStr(<< "a", "b" >>)}
    \cup {Replace(EntryA, "g_cost", JStr(<< "x" >>)),
          Replace(EntryB, "tiles", JNum(5))}

\* the lists of at most max entries
PathLists(max) ==
    UNION {[1 .. k -> SchemaEntries \cup OtherEntries] : k \in 0 .. max}

PathChoices(max) ==
    {<< >>}
    \cup {<< JList(p) >> : p \in PathLists(max)}
    \cup {<< v >> : v \in {JNull, JNum(3), JStr(<< >>), JStr(<< "a" >>),
                           JDict(<< >>),
                           JDict(<< << "tiles", JNum(1) >> >>)}}

SchemaStatistics ==
    JDict(<< << "states_selected", JNum(5) >>,
             << "max_states_in_memory", JNum(9) >>,
             << "solution_length", JNum(1) >> >>)

StatisticsFields ==
    {"states_selected", "max_states_in_memory", "solution_length"}

StatisticsChoices ==
    {<< >>, << SchemaStatistics >>}
    \cup {<< Without(SchemaStatistics, f) >> : f \in StatisticsFields}
    \cup {<< v >> : v \in {JNull, JNum(4), JList(<< JNum(1) >>),
                           Replace(SchemaStatistics, "solution_length",
                                   JStr(<< "x" >>))}}

SuccessChoices ==
    {<< >>}
    \cup {<< v >> : v \in {JTrue, JFalse, JNull, JNum(0), JNum(1),
                           JStr(<< >>)}}

Optional(name, choice) ==
    IF choice = << >> THEN << >> ELSE << << name, choice[1] >> >>

Objects(max) ==
    {JDict(Optional("success", su) \o Optional("path", pa)
           \o Optional("statistics", st)) :
        su \in SuccessChoices, pa \in PathChoices(max),
        st \in StatisticsChoices}

Payloads(max) ==
    {[json |-> FALSE, value |-> JNull]}
    \cup {[json |-> TRUE, value |-> v] :
            v \in Objects(max)
                  \cup {JNull, JTrue, JNum(1), JStr(<< "o", "k" >>),
                        JList(<< >>), JList(<< EntryA >>)}}

ParseIdle ==
    /\ raw = [json |-> FALSE, value |-> JNull]
    /\ outcome = Raise("InvalidSolutionFormat")

(***************************************************************************)
(* InteractiveViewer.run: one iteration of its while loop per key.         *)
(***************************************************************************)
\* what get_key returns: a character, or the name of an arrow key
Keys == {"q", "Q", "r", "R", "RIGHT", "LEFT", " ", "UP", "DOWN", "x"}

\* key.lower()
Lower(k) ==
    CASE k = "Q" -> "q"
      [] k = "R" -> "r"
      [] k = "RIGHT" -> "right"
      [] k = "LEFT" -> "left"
      [] k = "UP" -> "up"
      [] k = "DOWN" -> "down"
      [] OTHER -> k

Cursor(step, view) == [step |-> step, view |-> view]

\* mutant: the last step is not told apart from the ones before it
OnRight_StepsPastLast(step, view, total) ==
    IF view = "graph" THEN Cursor(step, view)
    ELSE IF view = "stats" THEN Cursor(step, "graph")
    ELSE IF step <= total THEN Cursor(step + 1, view)
    ELSE Cursor(step, view)

\* mutant: the last step opens the graph at once
OnRight_SkipsStats(step, view, total) ==
    IF view = "graph" THEN Cursor(step, view)
    ELSE IF view = "stats" THEN Cursor(step, "graph")
    ELSE IF step < total THEN Cursor(step + 1, view)
    ELSE IF step = total THEN Cursor(step, "graph")
    ELSE Cursor(step, view)

\* elif key == 'RIGHT'
OnRight(step, view, total) ==
    IF view = "graph" THEN Cursor(step, view)
    ELSE IF view = "stats" THEN Cursor(step, "graph")
    ELSE IF step < total THEN Cursor(step + 1, view)
    ELSE IF step = total THEN Cursor(step, "stats")
    ELSE Cursor(step, view)

\* mutant: leaving the statistics also steps back
OnLeft_StatsStepsBack(step, view, total) ==
    IF view = "graph" THEN Cursor(step, "stats")
    ELSE IF step > 0 THEN Cursor(step - 1, "grid")
    ELSE Cursor(step, "grid")

\* elif key == 'LEFT'
OnLeft(step, view, total) ==
    IF view = "graph" THEN Cursor(step, "stats")
    ELSE IF view = "stats" THEN Cursor(step, "grid")
    ELSE IF step > 0 THEN Cursor(step - 1, view)
    ELSE Cursor(step, view)

\* mutant: the last step is not told apart from the ones before it
OnSpace_StepsPastLast(step, view, total) ==
    IF view = "grid" /\ step <= total THEN Cursor(step + 1, view)
    ELSE Cursor(step, view)

\* elif key == ' '
OnSpace(step, view, total) ==
    IF view = "grid" /\ step < total THEN Cursor(step + 1, view)
    ELSE Cursor(step, view)

\* mutant: restart rewinds the steps and keeps the view
OnRestart_KeepsView(step, view, total) == Cursor(0, view)

\* elif key.lower() == 'r'
OnRestart(step, view, total) == Cursor(0, "grid")

\* list.index(v): the first index holding v
TilesIndex(tiles, v) ==
    CHOOSE i \in DOMAIN tiles :
        /\ tiles[i] = v
        /\ \A j \in DOMAIN tiles : tiles[j] = v => i <= j

\* mutant: the tile is read from the previous state
GetMovedTile_ReadsPrev(states, step) ==
    IF step = 0 THEN << >>
    ELSE LET prev_tiles == states[step]
             prev_zero == TilesIndex(prev_tiles, 0)
         IN << prev_tiles[prev_zero] >>

\* _get_moved_tile; states[k + 1] is solution.states[k]
GetMovedTile(states, step) ==
    IF step = 0 THEN << >>
    ELSE LET prev_tiles == states[step]
             curr_tiles == states[step + 1]
             prev_zero == TilesIndex(prev_tiles, 0)
             curr_zero == TilesIndex(curr_tiles, 0)
         IN << curr_tiles[prev_zero] >>

\* Solution._diff_tiles: (tile_out, tile_in)
DiffTiles(prev_tiles, curr_tiles) ==
    LET prev_zero == TilesIndex(prev_tiles, 0)
        curr_zero == TilesIndex(curr_tiles, 0)
    IN << curr_tiles[prev_zero], prev_tiles[curr_zero] >>

\* render_state -> _render_grid -> _get_moved_tile, at step; outside the
\* list, solution.states[step] raises before any tile is reported
RenderState(step) ==
    moved_tile' = IF step \in 0 .. Len(solution_states) - 1
                  THEN GetMovedTile(solution_states, step)
                  ELSE << >>

\* the count of RIGHT keys stops growing here
AdvanceCap(total) == total + 3

\* key = self.get_key(), with the cursor it is read at
ReadKey(k) ==
    /\ running
    /\ key' = k
    /\ old_step' = current_step
    /\ old_view' = view_mode
    /\ UNCHANGED << solution_states, total_steps >>
    /\ UNCHANGED << genVars, parseVars, runVars, solveVars, fileVars >>

\* the branches of RIGHT, LEFT and ' ' call render_state exactly when they
\* change the cursor and leave it in grid view
MoveTo(c) ==
    /\ current_step' = c.step
    /\ view_mode' = c.view
    /\ IF c.view = "grid" /\ c # Cursor(current_step, view_mode)
       THEN RenderState(c.step)
       ELSE UNCHANGED moved_tile

PressQuit ==
    \E k \in Keys :
        /\ Lower(k) = "q"
        /\ ReadKey(k)
        /\ running' = FALSE
        /\ UNCHANGED << current_step, view_mode, moved_tile, advances >>

PressRestart ==
    \E k \in Keys :
        /\ Lower(k) # "q"
        /\ Lower(k) = "r"
        /\ ReadKey(k)
        /\ LET c == OnRestart(current_step, view_mode, total_steps)
           IN /\ current_step' = c.step
              /\ view_mode' = c.view
              /\ RenderState(c.step)
        /\ advances' = 0
        /\ UNCHANGED running

PressRight ==
    \E k \in Keys :
        /\ Lower(k) \notin {"q", "r"}
        /\ k = "RIGHT"
        /\ ReadKey(k)
        /\ MoveTo(OnRight(current_step, view_mode, total_steps))
        /\ advances' = IF advances < 0 \/ advances >= AdvanceCap(total_steps)
                       THEN advances
                       ELSE advances + 1
        /\ UNCHANGED running

PressLeft ==
    \E k \in Keys :
        /\ Lower(k) \notin {"q", "r"}
        /\ k \notin {"RIGHT"}
        /\ k = "LEFT"
        /\ ReadKey(k)
        /\ MoveTo(OnLeft(current_step, view_mode, total_steps))
        /\ advances' = -1
        /\ UNCHANGED running

PressSpace ==
    \E k \in Keys :
        /\ Lower(k) \notin {"q", "r"}
        /\ k \notin {"RIGHT", "LEFT"}
        /\ k = " "
        /\ ReadKey(k)
        /\ MoveTo(OnSpace(current_step, view_mode, total_steps))
        /\ advances' = -1
        /\ UNCHANGED running

PressOther ==
    \E k \in Keys :
        /\ Lower(k) \notin {"q", "r"}
        /\ k \notin {"RIGHT", "LEFT", " "}
        /\ ReadKey(k)
        /\ advances' = -1
        /\ UNCHANGED << current_step, view_mode, running, moved_tile >>

NavIdle ==
    /\ solution_states = << >>
    /\ current_step = 0
    /\ total_steps = 0
    /\ view_mode = "grid"
    /\ running = FALSE
    /\ key = ""
    /\ old_step = 0
    /\ old_view = "grid"
    /\ moved_tile = << >>
    /\ advances = -1

(***************************************************************************)
(* Controller.run from create_solution on, and what main makes of it.      *)
(* o is what from_json returned or raised.                                 *)
(***************************************************************************)
\* mutant: create_solution has no clause for SolverFailedError
CreateSolution_NoFailureClause(o) ==
    IF o.kind = "Solution" THEN [kind |-> "return", solution |-> TRUE]
    ELSE [kind |-> "sys.exit", solution |-> FALSE]

\* create_solution: every exception from_json can raise is an Exception
CreateSolution(o) ==
    IF o.kind = "Solution" THEN [kind |-> "return", solution |-> TRUE]
    ELSE IF o.exc = "SolverFailedError"
         THEN [kind |-> "return", solution |-> FALSE]
         ELSE [kind |-> "sys.exit", solution |-> FALSE]

RunResult(ended, stdout, stderr, viewer, display, status) ==
    [ended |-> ended, stdout |-> stdout, stderr |-> stderr,
     viewer |-> viewer, display |-> display, status |-> status]

\* len(self.states[0].tiles) of _grid_size and _generate_goal_state: what it
\* raises on the states from_json returned ("" when it raises nothing)
FirstTilesExc(states) ==
    IF states = << >> THEN "IndexError"
    ELSE IF states[1].tiles.kind \in {"list", "str", "dict"} THEN ""
    ELSE "TypeError"

\* lines 128-141 of run, then lines 9-16 of main
AfterSolve(o, inter) ==
    LET created == CreateSolution(o)
    IN IF created.kind = "sys.exit"
       THEN RunResult("sys.exit", "", "Error creating solution", FALSE, FALSE,
                      1)
       ELSE IF ~created.solution
            THEN RunResult("return None", "PUZZLE IS UNSOLVABLE", "", FALSE,
                           FALSE, 1)
            ELSE IF FirstTilesExc(o.states) # ""
                 THEN RunResult("raise", "", "Error", inter, ~inter, 1)
                 ELSE RunResult("return solution", "", "", inter, ~inter, 0)

RunPending == RunResult("pending", "", "", FALSE, FALSE, -1)

RunAfterSolve ==
    /\ outcome.kind # "pending"
    /\ run_result = RunPending
    /\ run_result' = AfterSolve(outcome, interactive)
    /\ UNCHANGED << interactive, parseVars >>
    /\ UNCHANGED << genVars, navVars, solveVars, fileVars >>

RunIdle ==
    /\ interactive = FALSE
    /\ run_result = RunResult("idle", "", "", FALSE, FALSE, -1)

(***************************************************************************)
(* Controller.solve_puzzle, one action per statement, and                  *)
(* SignalHandler.handle_interrupt, which Python runs in the main thread    *)
(* between two of its bytecodes.  pc goes on from "done" (generate_puzzle  *)
(* has returned) to "set_subprocess", "communicate", "clear_subprocess",   *)
(* "returncode" and "returned"; "exit" is the end of the process.          *)
(***************************************************************************)
puzzleVars == << size, grid, solvable, iterations, current_value, x, y,
                 direction_x, direction_y, written, rounds, start, prev, idx,
                 swap_idx, perturbed, original >>

\* process = subprocess.Popen([...]); FileNotFoundError becomes
\* SubprocessError, which run answers with sys.exit(1)
Popen ==
    /\ pc = "done"
    /\ \E found \in BOOLEAN :
         IF found
         THEN /\ child' = "running"
              /\ pc' = "set_subprocess"
              /\ UNCHANGED exit_status
         ELSE /\ pc' = "exit"
              /\ exit_status' = 1
              /\ UNCHANGED child
    /\ UNCHANGED << returncode, handler_subprocess, interrupted >>
    /\ UNCHANGED << puzzleVars, parseVars, navVars, runVars, fileVars >>

\* self.signal_handler.set_subprocess(process)
SetSubprocess ==
    /\ pc = "set_subprocess"
    /\ handler_subprocess' = TRUE
    /\ pc' = "communicate"
    /\ UNCHANGED << child, returncode, interrupted, exit_status >>
    /\ UNCHANGED << puzzleVars, parseVars, navVars, runVars, fileVars >>

\* the solver ends on its own, with status 0 or not
ChildExits ==
    /\ child = "running"
    /\ child' = "exited"
    /\ returncode' \in {0, 1}
    /\ UNCHANGED << pc, handler_subprocess, interrupted, exit_status >>
    /\ UNCHANGED << puzzleVars, parseVars, navVars, runVars, fileVars >>

\* stdout, stderr = process.communicate() returns once the child has ended
Communicate ==
    /\ pc = "communicate"
    /\ child = "exited"
    /\ pc' = "clear_subprocess"
    /\ UNCHANGED solveVars
    /\ UNCHANGED << puzzleVars, parseVars, navVars, runVars, fileVars >>

\* self.signal_handler.clear_subprocess()
ClearSubprocess ==
    /\ pc = "clear_subprocess"
    /\ handler_subprocess' = FALSE
    /\ pc' = "returncode"
    /\ UNCHANGED << child, returncode, interrupted, exit_status >>
    /\ UNCHANGED << puzzleVars, parseVars, navVars, runVars, fileVars >>

\* if process.returncode != 0: raise SubprocessError, else return stdout
CheckReturncode ==
    /\ pc = "returncode"
    /\ IF returncode # 0
       THEN /\ pc' = "exit"
            /\ exit_status' = 1
       ELSE /\ pc' = "returned"
            /\ UNCHANGED exit_status
    /\ UNCHANGED << child, returncode, handler_subprocess, interrupted >>
    /\ UNCHANGED << puzzleVars, parseVars, navVars, runVars, fileVars >>

\* handle_interrupt: when self.subprocess is set and poll() is None,
\* terminate and wait, kill when one of them raised; then
\* sys.exit(130); SystemExit is not an Exception, so no except clause of
\* solve_puzzle, run or main stops it
HandleInterrupt ==
    /\ pc # "exit"
    /\ interrupted' = TRUE
    /\ IF handler_subprocess /\ child = "running"
       THEN \E stopped \in BOOLEAN :
               child' = IF stopped THEN "terminated" ELSE "killed"
       ELSE UNCHANGED child
    /\ pc' = "exit"
    /\ exit_status' = 130
    /\ UNCHANGED << returncode, handler_subprocess >>
    /\ UNCHANGED << puzzleVars, parseVars, navVars, runVars, fileVars >>

SolveIdle ==
    /\ child = "none"
    /\ returncode = -1
    /\ handler_subprocess = FALSE
    /\ interrupted = FALSE
    /\ exit_status = -1

(***************************************************************************)
(* parse_input_file.  A line is the sequence of its characters.            *)
(***************************************************************************)
MAX_SIZE == 16

\* the characters str.strip and str.split take for white space
IsSpace(c) == c \in {" ", "\t"}

RECURSIVE LStrip(_)
LStrip(t) ==
    IF t = << >> THEN t
    ELSE IF IsSpace(Head(t)) THEN LStrip(Tail(t)) ELSE t

RECURSIVE RStrip(_)
RStrip(t) ==
    IF t = << >> THEN t
    ELSE IF IsSpace(t[Len(t)]) THEN RStrip(SubSeq(t, 1, Len(t) - 1)) ELSE t

\* line.strip()
Strip(t) == RStrip(LStrip(t))

\* not trimmed or trimmed.startswith("#")
Skipped(trimmed) == trimmed = << >> \/ Head(trimmed) = "#"

\* the first word of t, which starts with one
RECURSIVE FirstWord(_)
FirstWord(t) ==
    IF t = << >> \/ IsSpace(Head(t)) THEN << >>
    ELSE << Head(t) >> \o FirstWord(Tail(t))

\* trimmed.split()
RECURSIVE Split(_)
Split(t) ==
    LET rest == LStrip(t)
    IN IF rest = << >> THEN << >>
       ELSE LET word == FirstWord(rest)
            IN << word >> \o Split(SubSeq(rest, Len(word) + 1, Len(rest)))

Digits == {"0", "1", "2", "3", "4", "5", "6", "7", "8", "9"}

DigitValue(c) ==
    CASE c = "0" -> 0 [] c = "1" -> 1 [] c = "2" -> 2 [] c = "3" -> 3
      [] c = "4" -> 4 [] c = "5" -> 5 [] c = "6" -> 6 [] c = "7" -> 7
      [] c = "8" -> 8 [] c = "9" -> 9

RECURSIVE DigitsValue(_)
DigitsValue(t) ==
    IF t = << >> THEN 0
    ELSE 10 * DigitsValue(SubSeq(t, 1, Len(t) - 1)) + DigitValue(t[Len(t)])

\* int(t): white space around, an optional sign, decimal digits
ToInt(t) ==
    LET body == Strip(t)
        signed == body # << >> /\ Head(body) \in {"-", "+"}
        digits == IF signed THEN Tail(body) ELSE body
    IN IF digits = << >> \/ \E k \in 1 .. Len(digits) : digits[k] \notin Digits
       THEN [exc |-> "ValueError", val |-> 0]
       ELSE [exc |-> "",
             val |-> IF signed /\ Head(body) = "-" THEN -DigitsValue(digits)
                     ELSE DigitsValue(digits)]

\* mutant: the largest size is refused
SizeOutOfRange_RefusesMax(n) == n < 3 \/ n >= MAX_SIZE

\* size < 3 or size > MAX_SIZE
SizeOutOfRange(n) == n < 3 \/ n > MAX_SIZE

FileResult(kind, exc, tiles) == [kind |-> kind, exc |-> exc, tiles |-> tiles]

FilePending == FileResult("pending", "", << >>)

\* for num_str in trimmed.split(): tiles.append(int(num_str)), up to the
\* first word int refuses
RECURSIVE AppendInts(_, _)
AppendInts(tiles, words) ==
    IF words = << >> THEN [exc |-> "", tiles |-> tiles]
    ELSE LET n == ToInt(Head(words))
         IN IF n.exc # "" THEN [exc |-> n.exc, tiles |-> tiles]
            ELSE AppendInts(Append(tiles, n.val), Tail(words))

\* one iteration of `for line in file_content.splitlines()`
ParseLine ==
    /\ file_result = FilePending
    /\ file_pos < Len(file_lines)
    /\ file_pos' = file_pos + 1
    /\ LET trimmed == Strip(file_lines[file_pos + 1])
       IN IF Skipped(trimmed)
          THEN UNCHANGED << file_size, file_tiles, file_result >>
          ELSE IF file_size = << >>
               THEN LET n == ToInt(trimmed)
                    IN IF n.exc # ""
                       THEN /\ file_result' = FileResult("raise", n.exc, << >>)
                            /\ UNCHANGED << file_size, file_tiles >>
                       ELSE /\ file_size' = << n.val >>
                            /\ file_result' =
                                  IF SizeOutOfRange(n.val)
                                  THEN FileResult("raise", "InvalidSizeError",
                                                  << >>)
                                  ELSE file_result
                            /\ UNCHANGED file_tiles
               ELSE LET r == AppendInts(file_tiles, Split(trimmed))
                    IN /\ file_tiles' = r.tiles
                       /\ file_result' =
                             IF r.exc # "" THEN FileResult("raise", r.exc, << >>)
                             ELSE file_result
                       /\ UNCHANGED file_size
    /\ UNCHANGED file_lines
    /\ UNCHANGED << genVars, parseVars, navVars, runVars, solveVars >>

\* lines 32-38, after the last line
ParseEnd ==
    /\ file_result = FilePending
    /\ file_pos = Len(file_lines)
    /\ file_result' =
          IF file_size = << >>
          THEN FileResult("raise", "MissingSizeError", << >>)
          ELSE IF Len(file_tiles) # file_size[1] * file_size[1]
               THEN FileResult("raise", "InvalidDimensions", << >>)
               ELSE FileResult("return", "", file_tiles)
    /\ UNCHANGED << file_lines, file_pos, file_size, file_tiles >>
    /\ UNCHANGED << genVars, parseVars, navVars, runVars, solveVars >>

FileIdle ==
    /\ file_lines = << >>
    /\ file_pos = 0
    /\ file_size = << >>
    /\ file_tiles = << >>
    /\ file_result = FileResult("idle", "", << >>)

(***************************************************************************)
(* Controller.generate_puzzle: Puzzle(size, solvable), then generate_snail,*)
(* shuffle(iterations), ensure_solvability(is_solvable).                   *)
(***************************************************************************)
Init ==
    /\ size \in MinSize .. MaxSize
    /\ solvable \in BOOLEAN
    /\ iterations \in 0 .. MaxIter
    /\ grid = EmptyGrid(size)
    /\ pc = "generate_snail"
    /\ current_value = 1
    /\ x = 0
    /\ y = 0
    /\ direction_x = 1
    /\ direction_y = 0
    /\ written = << >>
    /\ rounds = 0
    /\ start = EmptyGrid(size)
    /\ prev = EmptyGrid(size)
    /\ idx = -1
    /\ swap_idx = -1
    /\ perturbed = FALSE
    /\ original = EmptyGrid(size)
    /\ ParseIdle
    /\ NavIdle
    /\ RunIdle
    /\ SolveIdle
    /\ FileIdle

Next ==
    \/ SnailStep
    \/ ShuffleRound
    \/ EnsureSolvability

Spec == Init /\ [][Next]_vars

(***************************************************************************)
(* Puzzle.grid is a public attribute: shuffle and ensure_solvability work  *)
(* on whatever permutation it holds.  Perturb is a caller that, before     *)
(* shuffle is called, replaces the goal grid by another permutation of the *)
(* same values: the goal rotated by k cells, or the goal with cells k-1    *)
(* and k exchanged.                                                        *)
(***************************************************************************)
Rotated(g, s, k) == [i \in Cells(s) |-> g[(i + k) % (s * s)]]

Perturb ==
    /\ pc \in {"shuffle", "ensure_solvability"}
    /\ rounds = 0
    /\ ~perturbed
    /\ \E k \in 1 .. size * size - 1, rotate \in BOOLEAN :
         grid' = IF rotate THEN Rotated(grid, size, k)
                 ELSE SwapCells(grid, k - 1, k)
    /\ start' = grid'
    /\ prev' = grid'
    /\ perturbed' = TRUE
    /\ UNCHANGED << size, solvable, iterations, pc, current_value, x, y,
                    direction_x, direction_y, written, rounds, idx, swap_idx,
                    original >>
    /\ UNCHANGED << parseVars, navVars, runVars, solveVars, fileVars >>

\* the caller calls puzzle.ensure_solvability(is_solvable) a second time
EnsureSolvabilityAgain ==
    /\ pc = "done"
    /\ ~solvable
    /\ grid' = EnsureGrid(grid, size, solvable)
    /\ prev' = grid
    /\ pc' = "done twice"
    /\ UNCHANGED << size, solvable, iterations, current_value, x, y,
                    direction_x, direction_y, written, rounds, start, idx,
                    swap_idx, perturbed, original >>
    /\ UNCHANGED << parseVars, navVars, runVars, solveVars, fileVars >>

NextGrid ==
    \/ SnailStep
    \/ Perturb
    \/ ShuffleRound
    \/ EnsureSolvability
    \/ EnsureSolvabilityAgain

SpecGrid == Init /\ [][NextGrid]_vars

(***************************************************************************)
(* Controller.run up to the return of solve_puzzle, with SIGINT delivered  *)
(* at any point after register_signal_handler.                             *)
(***************************************************************************)
NextSolve ==
    \/ SnailStep
    \/ ShuffleRound
    \/ EnsureSolvability
    \/ Popen
    \/ SetSubprocess
    \/ ChildExits
    \/ Communicate
    \/ ClearSubprocess
    \/ CheckReturncode
    \/ HandleInterrupt

SpecSolve == Init /\ [][NextSolve]_vars

(***************************************************************************)
(* Controller.run from the return of solve_puzzle on: create_solution      *)
(* calls Solution.from_json once on the solver output, and run goes on     *)
(* with what it returned or raised.                                        *)
(***************************************************************************)
GenIdle ==
    /\ size = MinSize
    /\ solvable = TRUE
    /\ iterations = 0
    /\ grid = EmptyGrid(MinSize)
    /\ pc = "idle"
    /\ current_value = 1
    /\ x = 0
    /\ y = 0
    /\ direction_x = 1
    /\ direction_y = 0
    /\ written = << >>
    /\ rounds = 0
    /\ start = EmptyGrid(MinSize)
    /\ prev = EmptyGrid(MinSize)
    /\ idx = -1
    /\ swap_idx = -1
    /\ perturbed = FALSE
    /\ original = EmptyGrid(MinSize)

InitParse ==
    /\ raw \in Payloads(MaxPath)
    /\ outcome = Pending
    /\ interactive \in BOOLEAN
    /\ run_result = RunPending
    /\ GenIdle
    /\ NavIdle
    /\ SolveIdle
    /\ FileIdle

NextParse ==
    \/ FromJson
    \/ RunAfterSolve

SpecParse == InitParse /\ [][NextParse]_vars

(***************************************************************************)
(* show_interactive(solution): InteractiveViewer(solution).run() on the    *)
(* path of a solved 3 x 3 instance.  The solver is external: its paths are *)
(* taken to be the walks of at most MaxStates states that end in the snail *)
(* goal, each state one legal blank move from the one before.              *)
(***************************************************************************)
MaxStates == 4

Goal3 == AsGrid(<< 1, 2, 3, 8, 0, 4, 7, 6, 5 >>)

\* the walks of exactly n states that end in Goal3
RECURSIVE WalksTo(_)
WalksTo(n) ==
    IF n = 1 THEN {<< Goal3 >>}
    ELSE UNION {{<< g >> \o w : g \in LegalMoves(w[1], 3)} :
                   w \in WalksTo(n - 1)}

\* the walks of at most max states
SolverPaths(max) == UNION {WalksTo(n) : n \in 1 .. max}

\* InteractiveViewer.__init__
InitView ==
    /\ solution_states \in SolverPaths(MaxStates)
    /\ current_step = 0
    /\ total_steps = Len(solution_states) - 1
    /\ view_mode = "grid"
    /\ running = TRUE
    /\ key = ""
    /\ old_step = 0
    /\ old_view = "grid"
    /\ moved_tile = GetMovedTile(solution_states, 0)
    /\ advances = 0
    /\ GenIdle
    /\ ParseIdle
    /\ RunIdle
    /\ SolveIdle
    /\ FileIdle

NextView ==
    \/ PressQuit
    \/ PressRestart
    \/ PressRight
    \/ PressLeft
    \/ PressSpace
    \/ PressOther

SpecView == InitView /\ [][NextView]_vars

(***************************************************************************)
(* parse_input_file on the files of at most MaxLines lines taken from      *)
(* FileLines: blank and comment lines, size lines inside and outside       *)
(* 3..MAX_SIZE, lines of tiles, and a line int refuses.                    *)
(***************************************************************************)
MaxLines == 4

FileLines ==
    {<< " " >>,
     << "#", "3" >>,
     << " ", "3" >>,
     << "2" >>,
     << "1", "6" >>,
     << "1", "7" >>,
     << "1", " ", "2", " ", "3", " ", "8" >>,
     << "0", " ", " ", "4", " ", "7", " ", "6", " ", "5", " " >>,
     << "x" >>}

Files(max) == UNION {[1 .. k -> FileLines] : k \in 0 .. max}

InitFile ==
    /\ file_lines \in Files(MaxLines)
    /\ file_pos = 0
    /\ file_size = << >>
    /\ file_tiles = << >>
    /\ file_result = FilePending
    /\ GenIdle
    /\ ParseIdle
    /\ NavIdle
    /\ RunIdle
    /\ SolveIdle

NextFile ==
    \/ ParseLine
    \/ ParseEnd

SpecFile == InitFile /\ [][NextFile]_vars

(***************************************************************************)
(* C1.  shuffle(iterations), on any permutation grid, performs exactly     *)
(* `iterations` rounds; each round exchanges the blank with one cell that  *)
(* shares a side with it on the board and touches no other cell; the grid  *)
(* stays a permutation in the solvability class of the input; with         *)
(* iterations = 0 the grid is the input grid.                              *)
(***************************************************************************)
C1_ShuffleLegalMoves ==
    /\ InShuffle =>
         /\ IsPermutation(grid, size)
         /\ rounds <= iterations
         /\ SolvClass(grid, size) = SolvClass(start, size)
         /\ rounds = 0 => grid = start
         /\ rounds > 0 =>
              /\ prev[idx] = 0
              /\ Adjacent(idx, swap_idx, size)
              /\ ExchangedAt(prev, grid, idx, swap_idx, size)
    /\ pc \in {"ensure_solvability", "done"} => rounds = iterations

\* a round has moved the blank of a caller-supplied grid sideways, and
\* another one upwards from a cell of the last row
C1_Witness ==
    /\ pc = "ensure_solvability"
    /\ perturbed
    /\ rounds = iterations
    /\ rounds >= 2
    /\ Row(idx, size) = Row(swap_idx, size)
    /\ grid # start

(***************************************************************************)
(* C2.  generate_snail -> shuffle(n) -> ensure_solvability(solvable): when *)
(* solvable is true the final grid is reachable from the snail goal by     *)
(* legal blank moves; when it is false the final grid is in the other      *)
(* class, which no sequence of legal blank moves reaches from the goal.    *)
(***************************************************************************)
C2_ClassMatchesFlag ==
    /\ InShuffle => SolvClass(grid, size) = SolvClass(start, size)
    /\ (pc = "done" /\ solvable) =>
         /\ grid \in ReachWithin({start}, size, iterations)
         /\ SolvClass(grid, size) = SolvClass(start, size)
    /\ (pc = "done" /\ ~solvable) =>
         /\ SolvClass(grid, size) # SolvClass(start, size)
         /\ grid \notin ReachWithin({start}, size, iterations + 1)

\* an unsolvable instance was produced after the blank was shuffled into
\* one of the first two cells
C2_Witness ==
    /\ pc = "done"
    /\ ~solvable
    /\ rounds = iterations
    /\ rounds >= 2
    /\ BlankAt(grid, size) \in {0, 1}

(***************************************************************************)
(* C3.  ensure_solvability(True) leaves the grid unchanged;                *)
(* ensure_solvability(False) exchanges exactly one pair of horizontally    *)
(* adjacent cells, the last two when the blank is at index 0 or 1 and the  *)
(* first two otherwise; neither is the blank, the blank stays where it is  *)
(* and the permutation parity flips.  The snail goal of size 3 becomes     *)
(* [2,1,3,8,0,4,7,6,5].                                                    *)
(***************************************************************************)
C3_EnsureSolvability ==
    pc = "done" =>
        IF solvable
        THEN grid = prev
        ELSE LET n == size * size
                 a == IF BlankAt(prev, size) \in {0, 1} THEN n - 2 ELSE 0
             IN /\ ExchangedAt(prev, grid, a, a + 1, size)
                /\ grid # prev
                /\ Row(a, size) = Row(a + 1, size)
                /\ prev[a] # 0
                /\ prev[a + 1] # 0
                /\ BlankAt(grid, size) = BlankAt(prev, size)
                /\ PermParity(grid, size) # PermParity(prev, size)
                /\ IsPermutation(grid, size)
                /\ prev = AsGrid(<< 1, 2, 3, 8, 0, 4, 7, 6, 5 >>)
                     => grid = AsGrid(<< 2, 1, 3, 8, 0, 4, 7, 6, 5 >>)

\* the last two cells of a caller-supplied grid were exchanged
C3_Witness ==
    /\ pc = "done"
    /\ ~solvable
    /\ perturbed
    /\ prev[0] = 0 \/ prev[1] = 0
    /\ grid[size * size - 1] = prev[size * size - 2]
    /\ grid # prev

(***************************************************************************)
(* C4.  generate_snail, started on the all -1 grid, stops after exactly    *)
(* size*size writes, every write is inside the board and hits a cell that  *)
(* still holds -1, and the grid it leaves is a permutation of              *)
(* 0..size*size-1.                                                         *)
(***************************************************************************)
C4_SnailWritesEachCellOnce ==
    /\ pc # "IndexError"
    /\ Len(written) <= size * size
    /\ pc = "generate_snail" => Len(written) < size * size
    /\ \A k \in 1 .. Len(written) :
         /\ written[k].x \in 0 .. size - 1
         /\ written[k].y \in 0 .. size - 1
         /\ written[k].index \in Cells(size)
         /\ written[k].was_empty
    /\ \A k \in 1 .. Len(written), l \in 1 .. Len(written) :
         k # l => written[k].index # written[l].index
    /\ Cardinality({i \in Cells(size) : grid[i] # DEFAULT_TILE_VALUE})
         = IF pc = "generate_snail" THEN Len(written) ELSE size * size
    /\ pc # "generate_snail" =>
         /\ Len(written) = size * size
         /\ IsPermutation(grid, size)
         /\ \A i \in Cells(size) : grid[i] # DEFAULT_TILE_VALUE

\* generate_snail has returned on the largest board
C4_Witness ==
    /\ pc # "generate_snail"
    /\ size = MaxSize
    /\ Len(written) = size * size
    /\ rounds = 0
    /\ grid = start

(***************************************************************************)
(* C5.  generate_snail writes 1, 2, ..., size*size-1, 0 in that order      *)
(* along the clockwise inward spiral from the top-left cell, turning by    *)
(* (dx,dy) -> (-dy,dx) exactly when the next cell is off the board or      *)
(* already filled; the last cell written holds 0; for size 3 the grid is   *)
(* [1,2,3,8,0,4,7,6,5].                                                    *)
(***************************************************************************)
C5_SnailOrder ==
    /\ Len(written) <= size * size
    /\ \A k \in 1 .. Len(written) :
         /\ written[k].index = Spiral(size)[k]
         /\ written[k].index = written[k].x + written[k].y * size
         /\ written[k].value = IF k < size * size THEN k ELSE 0
    /\ Len(written) > 0 =>
         /\ written[1].dx = 1
         /\ written[1].dy = 0
    /\ \A k \in 1 .. Len(written) - 1 :
         LET r == written[k]
             nx == r.x + r.dx
             ny == r.y + r.dy
             blocked ==
                \/ nx \notin 0 .. size - 1
                \/ ny \notin 0 .. size - 1
                \/ \E l \in 1 .. k : written[l].index = nx + ny * size
         IN /\ blocked =>
                 /\ written[k + 1].dx = -r.dy
                 /\ written[k + 1].dy = r.dx
            /\ ~blocked =>
                 /\ written[k + 1].dx = r.dx
                 /\ written[k + 1].dy = r.dy
            /\ written[k + 1].x = r.x + written[k + 1].dx
            /\ written[k + 1].y = r.y + written[k + 1].dy
    /\ pc # "generate_snail" =>
         /\ written[Len(written)].value = 0
         /\ start[written[Len(written)].index] = 0
         /\ \A k \in 1 .. size * size : start[Spiral(size)[k]] = written[k].value
         /\ size = 3 => start = AsGrid(<< 1, 2, 3, 8, 0, 4, 7, 6, 5 >>)

\* the spiral of the size 3 board is complete
C5_Witness ==
    /\ pc # "generate_snail"
    /\ size = 3
    /\ rounds = 0
    /\ grid = AsGrid(<< 1, 2, 3, 8, 0, 4, 7, 6, 5 >>)

(***************************************************************************)
(* Vocabulary of the properties of from_json: the response schema of the   *)
(* solver, read off the payload itself.                                    *)
(***************************************************************************)
Called == outcome.kind # "pending"

TopObject == raw.json /\ raw.value.kind = "dict"

Has(name) == TopObject /\ HasKey(raw.value, name)

IsNumList(v) ==
    /\ v.kind = "list"
    /\ \A k \in 1 .. Len(v.items) : v.items[k].kind = "num"

\* entry has the four fields of a path entry
HasEntryFields(e) ==
    /\ e.kind = "dict"
    /\ \A f \in EntryFields : HasKey(e, f)

IsSchemaEntry(e) ==
    /\ HasEntryFields(e)
    /\ IsNumList(Member(e, "tiles"))
    /\ \A f \in EntryFields \ {"tiles"} : Member(e, f).kind = "num"

HasStatisticsFields(v) ==
    /\ v.kind = "dict"
    /\ \A f \in StatisticsFields : HasKey(v, f)

IsSchemaStatistics(v) ==
    /\ HasStatisticsFields(v)
    /\ \A f \in StatisticsFields : Member(v, f).kind = "num"

PathIsList == Has("path") /\ Member(raw.value, "path").kind = "list"

PathItems == Member(raw.value, "path").items

\* the payload is a response of the schema with success true
SchemaOK ==
    /\ Has("success")
    /\ Member(raw.value, "success") = JTrue
    /\ PathIsList
    /\ \A k \in 1 .. Len(PathItems) : IsSchemaEntry(PathItems[k])
    /\ Has("statistics")
    /\ IsSchemaStatistics(Member(raw.value, "statistics"))

(***************************************************************************)
(* C6.  from_json raises SolverFailedError, never InvalidSolutionFormat,   *)
(* for every JSON object whose "success" member is false or absent,        *)
(* whatever its "path" and "statistics" are.                               *)
(***************************************************************************)
C6_FailureFlagWins ==
    (/\ Called
     /\ TopObject
     /\ ~Has("success") \/ Member(raw.value, "success") = JFalse)
    => outcome = Raise("SolverFailedError")

\* success is false, the path is not a list and there are no statistics
C6_Witness ==
    /\ outcome = Raise("SolverFailedError")
    /\ Has("success")
    /\ Member(raw.value, "success") = JFalse
    /\ Has("path")
    /\ ~PathIsList
    /\ ~Has("statistics")

(***************************************************************************)
(* C7.  from_json raises InvalidSolutionFormat, and nothing else, for      *)
(* every structural deviation from the schema: text that is not JSON, a    *)
(* top level that is not an object, and, with success true, a "path", a    *)
(* path entry field, a "statistics" or a statistics field that is absent   *)
(* or of the wrong shape.                                                  *)
(***************************************************************************)
C7_DeviationIsInvalidFormat ==
    (/\ Called
     /\ \/ ~raw.json
        \/ ~TopObject
        \/ /\ Has("success")
           /\ Member(raw.value, "success") = JTrue
           /\ ~SchemaOK)
    => outcome = Raise("InvalidSolutionFormat")

(***************************************************************************)
(* C8.  On a response of the schema from_json returns one State per path   *)
(* entry, in order, with that entry's four values, and the three           *)
(* statistics values; parsing is all or nothing: when a path entry is not  *)
(* an object with the four fields, or the statistics are not an object     *)
(* with the three, nothing is returned, not even the states of the entries *)
(* before it.                                                              *)
(***************************************************************************)
StateOf(e) ==
    [tiles |-> Member(e, "tiles"), g_cost |-> Member(e, "g_cost"),
     h_cost |-> Member(e, "h_cost"), f_cost |-> Member(e, "f_cost")]

StatisticsOf(v) ==
    [states_selected |-> Member(v, "states_selected"),
     max_states_in_memory |-> Member(v, "max_states_in_memory"),
     solution_length |-> Member(v, "solution_length")]

last == Len(solution_states) - 1

(***************************************************************************)
(* C9.  Advance (RIGHT): in grid view before the last step, current_step   *)
(* grows by exactly 1 and the view stays grid; in grid view at the last    *)
(* step, the view becomes stats and current_step stays; in stats view the  *)
(* view becomes graph; in graph view nothing changes.                      *)
(***************************************************************************)
C9_Advance ==
    key = "RIGHT" =>
        /\ (old_view = "grid" /\ old_step < last) =>
              /\ current_step = old_step + 1
              /\ view_mode = "grid"
        /\ (old_view = "grid" /\ old_step = last) =>
              /\ current_step = old_step
              /\ view_mode = "stats"
        /\ old_view = "stats" =>
              /\ current_step = old_step
              /\ view_mode = "graph"
        /\ old_view = "graph" =>
              /\ current_step = old_step
              /\ view_mode = "graph"
        /\ old_view \in {"grid", "stats", "graph"}
        /\ old_view = "grid" => old_step <= last

\* RIGHT at the last of several steps has opened the statistics
C9_Witness ==
    /\ key = "RIGHT"
    /\ last >= 2
    /\ old_view = "grid"
    /\ old_step = last
    /\ view_mode = "stats"
    /\ current_step = last

(***************************************************************************)
(* C10.  Retreat (LEFT): in grid view after step 0, current_step shrinks   *)
(* by exactly 1; in grid view at step 0 nothing changes; in stats view the *)
(* view returns to grid with current_step unchanged, still the last step;  *)
(* in graph view the view returns to stats with current_step unchanged.    *)
(***************************************************************************)
C10_Retreat ==
    key = "LEFT" =>
        /\ (old_view = "grid" /\ old_step > 0) =>
              /\ current_step = old_step - 1
              /\ view_mode = "grid"
        /\ (old_view = "grid" /\ old_step = 0) =>
              /\ current_step = 0
              /\ view_mode = "grid"
        /\ old_view = "stats" =>
              /\ current_step = old_step
              /\ current_step = last
              /\ view_mode = "grid"
        /\ old_view = "graph" =>
              /\ current_step = old_step
              /\ view_mode = "stats"
        /\ old_view \in {"grid", "stats", "graph"}

\* LEFT in the statistics has returned to the last of several steps
C10_Witness ==
    /\ key = "LEFT"
    /\ last >= 2
    /\ old_view = "stats"
    /\ view_mode = "grid"
    /\ current_step = last

(***************************************************************************)
(* C11.  The session starts on (0, grid); 'r' or 'R', read in any state,   *)
(* puts the cursor on exactly (0, grid); 'q' or 'Q' can be read in any     *)
(* state of a running session and ends it, and nothing changes after the   *)
(* session has ended.                                                      *)
(***************************************************************************)
C11_RestartAndQuit ==
    /\ []( /\ key = "" =>
               /\ current_step = 0
               /\ view_mode = "grid"
               /\ running
           /\ Lower(key) = "r" =>
               /\ current_step = 0
               /\ view_mode = "grid"
               /\ running
           /\ Lower(key) = "q" =>
               /\ ~running
               /\ current_step = old_step
               /\ view_mode = old_view
           /\ ~running => Lower(key) = "q"
           /\ running => ENABLED PressRestart /\ ENABLED PressQuit)
    /\ [][running]_vars

\* 'R' in the graph view of a solution of several steps
C11_Witness ==
    /\ key = "R"
    /\ last >= 2
    /\ old_view = "graph"
    /\ old_step = last
    /\ current_step = 0
    /\ view_mode = "grid"

(***************************************************************************)
(* C12.  With at least one state in the solution, after any sequence of    *)
(* keys 0 <= current_step <= len(states) - 1 and view_mode is grid, stats  *)
(* or graph, so solution.states[current_step] exists.                      *)
(***************************************************************************)
C12_CursorInBounds ==
    Len(solution_states) >= 1 =>
        /\ 0 <= current_step
        /\ current_step <= Len(solution_states) - 1
        /\ view_mode \in {"grid", "stats", "graph"}
        /\ current_step + 1 \in DOMAIN solution_states

\* the space key was read at the last of several steps
C12_Witness ==
    /\ key = " "
    /\ last >= 2
    /\ old_view = "grid"
    /\ old_step = last
    /\ current_step = last
    /\ view_mode = "grid"

(***************************************************************************)
(* C13.  In grid view the space key leads to the state RIGHT leads to,     *)
(* from every step 0..last; in stats and graph view it changes nothing.    *)
(***************************************************************************)
C13_SpaceIsAdvance ==
    key = " " =>
        /\ old_view = "grid" =>
              Cursor(current_step, view_mode) = OnRight(old_step, old_view, last)
        /\ old_view # "grid" =>
              Cursor(current_step, view_mode) = Cursor(old_step, old_view)

(***************************************************************************)
(* C14.  The moved tile reported at step k > 0 is curr.tiles[prev_zero],   *)
(* which equals prev.tiles[curr_zero] and is not 0, for prev and curr the  *)
(* states k-1 and k, one legal blank move apart; at step 0 none is         *)
(* reported; prev [1,2,3,4,5,6,7,0,8] and curr [1,2,3,4,5,6,7,8,0] give 8. *)
(***************************************************************************)
C14_MovedTile ==
    /\ current_step = 0 => moved_tile = << >>
    /\ current_step > 0 =>
         LET p == solution_states[current_step]
             c == solution_states[current_step + 1]
         IN /\ c \in LegalMoves(p, 3)
            /\ moved_tile = << c[BlankAt(p, 3)] >>
            /\ c[BlankAt(p, 3)] = p[BlankAt(c, 3)]
            /\ c[BlankAt(p, 3)] # 0
    /\ \A k \in 1 .. last :
         LET p == solution_states[k]
             c == solution_states[k + 1]
         IN /\ DiffTiles(p, c) = << c[BlankAt(p, 3)], p[BlankAt(c, 3)] >>
            /\ DiffTiles(p, c)[1] = DiffTiles(p, c)[2]
            /\ DiffTiles(p, c)[1] # 0
            /\ GetMovedTile(solution_states, k) = << DiffTiles(p, c)[1] >>
    /\ LET example == << AsGrid(<< 1, 2, 3, 4, 5, 6, 7, 0, 8 >>),
                         AsGrid(<< 1, 2, 3, 4, 5, 6, 7, 8, 0 >>) >>
       IN /\ GetMovedTile(example, 1) = << 8 >>
          /\ GetMovedTile(example, 0) = << >>

\* the last of several steps was rendered after RIGHT
C14_Witness ==
    /\ key = "RIGHT"
    /\ last >= 2
    /\ view_mode = "grid"
    /\ current_step = last
    /\ moved_tile # << >>
    /\ moved_tile[1] = solution_states[last][BlankAt(Goal3, 3)]

(***************************************************************************)
(* C15.  In Controller.run a SolverFailedError from from_json is caught:   *)
(* create_solution returns None without ending the process, the unsolvable *)
(* message is shown, neither the viewer nor the display is started; an     *)
(* InvalidSolutionFormat ends the run through sys.exit with an error       *)
(* message; the two outcomes differ.                                       *)
(***************************************************************************)
C15_FailureIsNotAnError ==
    run_result.ended \notin {"idle", "pending"} =>
        /\ outcome = Raise("SolverFailedError") =>
              /\ run_result.ended = "return None"
              /\ run_result.stdout = "PUZZLE IS UNSOLVABLE"
              /\ run_result.stderr = ""
              /\ ~run_result.viewer
              /\ ~run_result.display
        /\ outcome = Raise("InvalidSolutionFormat") =>
              /\ run_result.ended = "sys.exit"
              /\ run_result.stderr = "Error creating solution"
              /\ run_result.stdout # "PUZZLE IS UNSOLVABLE"
              /\ ~run_result.viewer
              /\ ~run_result.display
        /\ run_result.stdout = "PUZZLE IS UNSOLVABLE" =>
              outcome = Raise("SolverFailedError")
        /\ (run_result.viewer \/ run_result.display) =>
              outcome.kind = "Solution"

\* the solver reported failure in a run started with the interactive flag
C15_Witness ==
    /\ run_result.ended = "return None"
    /\ interactive
    /\ outcome = Raise("SolverFailedError")
    /\ Has("success")
    /\ Member(raw.value, "success") = JFalse

(***************************************************************************)
(* Vocabulary of the properties of parse_input_file: the lines that count  *)
(* and the numbers on them, read off the characters by position.           *)
(***************************************************************************)
IsBlank(l) == \A k \in 1 .. Len(l) : l[k] \in {" ", "\t"}

FirstInk(l) ==
    l[CHOOSE k \in 1 .. Len(l) :
         /\ l[k] \notin {" ", "\t"}
         /\ \A j \in 1 .. k - 1 : l[j] \in {" ", "\t"}]

Ignored(l) == IsBlank(l) \/ FirstInk(l) = "#"

\* the positions where a word of l starts
WordStarts(l) ==
    {i \in 1 .. Len(l) :
        /\ l[i] \notin {" ", "\t"}
        /\ i = 1 \/ l[i - 1] \in {" ", "\t"}}

\* the word of l that starts at i
WordAt(l, i) ==
    LET ends == {j \in i .. Len(l) : j = Len(l) \/ l[j + 1] \in {" ", "\t"}}
        j == CHOOSE e \in ends : \A f \in ends : e <= f
    IN SubSeq(l, i, j)

\* the words of l, from left to right
WordsOf(l) ==
    LET starts == WordStarts(l)
        nth(k) == CHOOSE i \in starts :
                      Cardinality({h \in starts : h < i}) = k - 1
    IN [k \in 1 .. Cardinality(starts) |-> WordAt(l, nth(k))]

IsDecimal(w) == w # << >> /\ \A k \in 1 .. Len(w) : w[k] \in Digits

Decimal(w) ==
    LET value[k \in 0 .. Len(w)] ==
            IF k = 0 THEN 0 ELSE 10 * value[k - 1] + DigitValue(w[k])
    IN value[Len(w)]

\* the lines of the file that are neither blank nor comments, by position
KeptLines == {k \in 1 .. Len(file_lines) : ~Ignored(file_lines[k])}

SizeLine == CHOOSE k \in KeptLines : \A j \in KeptLines : k <= j

\* the numbers of the kept lines after line k, in file order
TilesAfter(k) ==
    LET upto[j \in k .. Len(file_lines)] ==
            IF j = k THEN << >>
            ELSE IF j \in KeptLines
                 THEN upto[j - 1]
                      \o [h \in 1 .. Len(WordsOf(file_lines[j])) |->
                             Decimal(WordsOf(file_lines[j])[h])]
                 ELSE upto[j - 1]
    IN upto[Len(file_lines)]

\* the size line is one number and every word after it is a number
Numeric ==
    /\ Len(WordsOf(file_lines[SizeLine])) = 1
    /\ IsDecimal(WordsOf(file_lines[SizeLine])[1])
    /\ \A k \in KeptLines :
          \A h \in 1 .. Len(WordsOf(file_lines[k])) :
              IsDecimal(WordsOf(file_lines[k])[h])

SizeOf == Decimal(WordsOf(file_lines[SizeLine])[1])

(***************************************************************************)
(* C16.  parse_input_file skips blank lines and lines starting with '#',   *)
(* takes the first other line as the size and the numbers of all later     *)
(* ones as the tiles; it raises MissingSizeError when there is no size     *)
(* line, InvalidSizeError when the size is outside 3..16, on reading the   *)
(* size line and before any tile is collected, InvalidDimensions when the  *)
(* number of tiles is not size * size, and otherwise returns the tiles in  *)
(* file order.                                                             *)
(***************************************************************************)
C16_ParseInputFile ==
    file_result.kind \in {"return", "raise"} =>
        IF KeptLines = {}
        THEN file_result = FileResult("raise", "MissingSizeError", << >>)
        ELSE LET word == WordsOf(file_lines[SizeLine])
             IN (Len(word) = 1 /\ IsDecimal(word[1])) =>
                  IF SizeOf < 3 \/ SizeOf > 16
                  THEN /\ file_result
                            = FileResult("raise", "InvalidSizeError", << >>)
                       /\ file_pos = SizeLine
                       /\ file_tiles = << >>
                  ELSE Numeric =>
                         IF Len(TilesAfter(SizeLine)) # SizeOf * SizeOf
                         THEN file_result
                                = FileResult("raise", "InvalidDimensions",
                                             << >>)
                         ELSE file_result
                                = FileResult("return", "",
                                             TilesAfter(SizeLine))

\* nine tiles were returned from two lines with a comment between the size
\* and the tiles
C16_Witness ==
    /\ file_result
         = FileResult("return", "", << 1, 2, 3, 8, 0, 4, 7, 6, 5 >>)
    /\ file_lines[1] = << " ", "3" >>
    /\ file_lines[2] = << "#", "3" >>
    /\ Len(file_lines) = 4

(***************************************************************************)
(* C17.  On every permutation grid two calls of ensure_solvability(False)  *)
(* in a row leave the grid as it was before the first: the second call     *)
(* exchanges the same two cells as the first, so the grid is back in its   *)
(* solvability class.                                                      *)
(***************************************************************************)
C17_TwiceRestores ==
    pc = "done twice" =>
        /\ IsPermutation(original, size)
        /\ grid = original
        /\ prev # original
        /\ {i \in Cells(size) : original[i] # prev[i]}
             = {i \in Cells(size) : prev[i] # grid[i]}
        /\ Cardinality({i \in Cells(size) : prev[i] # grid[i]}) = 2
        /\ SolvClass(prev, size) # SolvClass(original, size)
        /\ SolvClass(grid, size) = SolvClass(original, size)

\* the last two cells of a caller-supplied, shuffled grid were exchanged
\* twice
C17_Witness ==
    /\ pc = "done twice"
    /\ perturbed
    /\ rounds >= 1
    /\ original[0] = 0 \/ original[1] = 0
    /\ prev[size * size - 1] = grid[size * size - 2]
    /\ grid = original

(***************************************************************************)
(* C18.  The cursors reachable from (0, grid) are the chain (0, grid), ... *)
(* (last, grid), (last, stats), (last, graph): in stats and graph view     *)
(* current_step is last, and n RIGHT keys in a row from (0, grid) lead to  *)
(* the n-th cursor of the chain, so last + 2 of them lead to (last, graph) *)
(* and more of them change nothing.                                        *)
(***************************************************************************)
C18_ReachableChain ==
    /\ view_mode \in {"grid", "stats", "graph"}
    /\ view_mode = "grid" => current_step \in 0 .. last
    /\ view_mode \in {"stats", "graph"} => current_step = last
    /\ advances >= 0 =>
         Cursor(current_step, view_mode)
           = IF advances <= last THEN Cursor(advances, "grid")
             ELSE IF advances = last + 1 THEN Cursor(last, "stats")
             ELSE Cursor(last, "graph")

\* one RIGHT more than the last + 2 that lead to the graph
C18_Witness ==
    /\ last >= 2
    /\ advances = last + 3
    /\ key = "RIGHT"
    /\ old_view = "graph"
    /\ view_mode = "graph"
    /\ current_step = last

(***************************************************************************)
(* C19.  When SIGINT is handled after the solver process was spawned and   *)
(* before it has exited, handle_interrupt terminates it (and kills it only *)
(* when that failed) before the program exits with status 130: the program *)
(* never exits through the handler while a spawned solver is still         *)
(* running.                                                                *)
(***************************************************************************)
C19_InterruptStopsSolver ==
    (interrupted /\ exit_status = 130) =>
        child \in {"none", "exited", "terminated", "killed"}

(***************************************************************************)
(* C20.  Every Solution from_json returns has at least one State: a        *)
(* payload with success true and an empty path is rejected.                *)
(***************************************************************************)
C20_SolutionHasAState ==
    /\ outcome.kind = "Solution" => Len(outcome.states) >= 1
    /\ (/\ Called
        /\ Has("success")
        /\ Member(raw.value, "success") = JTrue
        /\ PathIsList
        /\ PathItems = << >>)
       => outcome.kind = "raise"

====
